---- MODULE Spec2Model ----
(***************************************************************************)
(* A model of src/visualizer/player.py: the MP3Player object, the pygame   *)
(* music mixer it drives, the main loop of main(), the synthetic spectrum  *)
(* of generate_visualizer_data and the bar layout of draw_visualizer.      *)
(*                                                                         *)
(* Time is wall-clock time in whole seconds.  Volume is kept in tenths     *)
(* (0.7 is 7).  Amplitudes are fixed-point numbers in units of 1/Unit.     *)
(***************************************************************************)
EXTENDS Integers, Sequences, FiniteSets, TLC

VARIABLES
    \* ---- MP3Player fields (player.py:18-31)
    songs,                \* len(self.songs): the tracks are told apart by index only
    current_song_index,
    paused,
    volume,               \* in tenths
    running,
    song_start_time,
    pause_time,
    seek_offset,
    current_song_length,
    audio_data,           \* audio_data[band], in 1/Unit
    peak_data,            \* peak_data[band], in 1/Unit
    beat_intensity,       \* in 1/Unit
    \* ---- the environment
    music,                \* pygame.mixer.music: "idle", "playing" or "paused"
    music_volume,         \* the gain last pushed with mixer.music.set_volume, in tenths
    busy_when_paused,     \* whether this pygame's get_busy() is True for paused music
    now,                  \* time.time()
    term_tall,            \* the terminal has more than 17 rows (player.py:478-480)
    term_width,           \* the width handed to draw_visualizer
    band,                 \* the band of the 64 whose amplitude the model follows
    \* ---- main(): position in the loop and the key read by getch()
    pc,
    key,
    \* ---- observations made by the model (never read by the program)
    pre,                  \* the player as it was when the last key was dispatched
    play_result,          \* how the last play_song call ended
    shown,                \* what draw_progress_bar read in this iteration
    pause_obs,            \* position() around the pause that is in progress
    tick,                 \* the last generate_visualizer_data call
    fade,                 \* the run of not-playing ticks in progress
    layout                \* the columns draw_visualizer last handed out

playerVars == <<songs, current_song_index, paused, volume, running, song_start_time,
                pause_time, seek_offset, current_song_length>>
visVars    == <<audio_data, peak_data, beat_intensity, tick, fade>>
envVars    == <<music, music_volume, busy_when_paused, now, term_tall, term_width, band>>
obsVars    == <<pre, play_result, shown, pause_obs, layout>>
vars       == <<playerVars, visVars, envVars, obsVars, pc, key>>

(***************************************************************************)
(* Bounds of the model.                                                    *)
(***************************************************************************)
MaxSongs  == 3      \* most tracks in the songs directory
MaxTime   == 3      \* the clock stops the run at this many seconds
MaxDelay  == 2      \* longest time between two loop iterations
MaxOffset == 12     \* seeks forward are followed up to this offset
TrackStep == 7      \* track i is (i + 1) * TrackStep seconds long

(***************************************************************************)
(* Program constants.                                                      *)
(***************************************************************************)
InitVolume == 7
VolumeStep == 1
VolumeMax  == 10
SeekStep   == 10

Min(a, b) == IF a < b THEN a ELSE b
Max(a, b) == IF a > b THEN a ELSE b

NoPre   == [valid |-> FALSE]
NoPause == [phase |-> "none"]
NoShown == [valid |-> FALSE]

\* pygame.mixer.Sound(song_path).get_length() of track idx
TrackLength(idx) == (idx + 1) * TrackStep

\* mixer.music.get_busy(): pygame 1 counts paused music as busy, pygame >= 2.0.1
\* does not
get_busy == music = "playing" \/ (music = "paused" /\ busy_when_paused)

\* seekOffsetSeconds + (paused ? pauseTimestamp : now()) - playStartTimestamp
ClockFormula == seek_offset + (IF paused THEN pause_time ELSE now) - song_start_time

get_song_position_no_guard ==
    LET elapsed == IF paused THEN pause_time - song_start_time
                             ELSE now - song_start_time
    IN  seek_offset + elapsed

get_song_position ==
    IF ~get_busy
    THEN 0
    ELSE LET elapsed == IF paused THEN pause_time - song_start_time
                                  ELSE now - song_start_time
         IN  seek_offset + elapsed

Snapshot ==
    [valid |-> TRUE, position |-> get_song_position, clock |-> ClockFormula,
     busy |-> get_busy, music |-> music,
     songs |-> songs, current_song_index |-> current_song_index, paused |-> paused,
     volume |-> volume, song_start_time |-> song_start_time, pause_time |-> pause_time,
     seek_offset |-> seek_offset, current_song_length |-> current_song_length]

PlayResults == {"ok", "load_fails", "play_fails"}

(***************************************************************************)
(* MP3Player.play_song for the track at idx.  mixer.music.load either      *)
(* raises and leaves the mixer as it was, or replaces the stream (which    *)
(* stops it); mixer.music.play can raise after that.  An index past the    *)
(* end of the list raises IndexError before the try block.                 *)
(***************************************************************************)
play_song(idx, start_pos, res, probe_ok) ==
    IF songs = 0
    THEN /\ UNCHANGED <<paused, song_start_time, seek_offset, current_song_length,
                        music, music_volume>>
         /\ play_result' = "none"
    ELSE IF idx >= songs
    THEN /\ UNCHANGED <<paused, song_start_time, seek_offset, current_song_length,
                        music, music_volume>>
         /\ play_result' = "index_error"
    ELSE /\ play_result' = res
         /\ CASE res = "load_fails" ->
                   UNCHANGED <<paused, song_start_time, seek_offset, current_song_length,
                               music, music_volume>>
              [] res = "play_fails" ->
                   /\ music' = "idle"
                   /\ music_volume' = volume
                   /\ UNCHANGED <<paused, song_start_time, seek_offset,
                                  current_song_length>>
              [] res = "ok" ->
                   /\ music' = "playing"
                   /\ music_volume' = volume
                   /\ paused' = FALSE
                   /\ song_start_time' = now
                   /\ seek_offset' = start_pos
                   /\ current_song_length' = IF probe_ok THEN TrackLength(idx) ELSE 0

resumed_start_time_unshifted == song_start_time

resumed_start_time == song_start_time + (now - pause_time)

toggle_pause ==
    /\ IF paused
       THEN /\ music' = IF music = "paused" THEN "playing" ELSE music
            /\ song_start_time' = resumed_start_time
            /\ paused' = FALSE
            /\ UNCHANGED pause_time
       ELSE /\ music' = IF music = "playing" THEN "paused" ELSE music
            /\ pause_time' = now
            /\ paused' = TRUE
            /\ UNCHANGED song_start_time
    /\ play_result' = "none"
    /\ UNCHANGED <<songs, current_song_index, volume, running, seek_offset,
                   current_song_length, music_volume>>

next_index_no_wrap == Min(current_song_index + 1, songs - 1)

next_index == (current_song_index + 1) % songs

prev_index == (current_song_index - 1) % songs

next_song(res, probe_ok) ==
    IF songs > 0
    THEN /\ current_song_index' = next_index
         /\ play_song(next_index, 0, res, probe_ok)
    ELSE /\ play_result' = "none"
         /\ UNCHANGED <<current_song_index, paused, song_start_time, seek_offset,
                        current_song_length, music, music_volume>>

prev_song(res, probe_ok) ==
    IF songs > 0
    THEN /\ current_song_index' = prev_index
         /\ play_song(prev_index, 0, res, probe_ok)
    ELSE /\ play_result' = "none"
         /\ UNCHANGED <<current_song_index, paused, song_start_time, seek_offset,
                        current_song_length, music, music_volume>>

seek_backward_target_no_clamp == get_song_position - SeekStep

seek_forward_target == get_song_position + SeekStep

seek_backward_target == Max(0, get_song_position - SeekStep)

\* seek_forward and seek_backward: mixer.music.stop(), then play_song; whatever
\* play_song raises is swallowed, the music staying stopped
seek(new_pos, res, probe_ok) ==
    /\ UNCHANGED current_song_index
    /\ IF songs = 0 \/ ~get_busy
       THEN /\ play_result' = "none"
            /\ UNCHANGED <<paused, song_start_time, seek_offset, current_song_length,
                           music, music_volume>>
       ELSE IF current_song_index >= songs \/ res = "load_fails"
       THEN /\ play_result' = IF current_song_index >= songs THEN "index_error" ELSE res
            /\ music' = "idle"
            /\ UNCHANGED <<paused, song_start_time, seek_offset, current_song_length,
                           music_volume>>
       ELSE play_song(current_song_index, new_pos, res, probe_ok)

volume_up_unclamped == volume + VolumeStep

volume_up_value == Min(VolumeMax, volume + VolumeStep)

volume_down_value == Max(0, volume - VolumeStep)

\* the keys main() dispatches on: those that call play_song, the reload, the rest
PlayKeys   == {"n", "p", "right", "left"}
PlainKeys  == {"none", "q", " "}
VolumeKeys == {"+", "-"}

(***************************************************************************)
(* pause_obs follows one pause: the position read just before it, just     *)
(* after it, and the moment of the resume that ends it.  Any other command *)
(* or event ends the observation.                                          *)
(***************************************************************************)
PauseObsAfterKey(k) ==
    IF k = " "
    THEN IF ~paused
         THEN [phase |-> "paused", before |-> get_song_position,
               after |-> get_song_position']
         ELSE IF pause_obs.phase = "paused"
              THEN [phase |-> "resumed", before |-> pause_obs.before,
                    after |-> pause_obs.after]
              ELSE NoPause
    ELSE IF k = "none" /\ pause_obs.phase = "paused"
         THEN pause_obs
         ELSE NoPause

(***************************************************************************)
(* main(), player.py:621-623: auto-play of the first song.                 *)
(***************************************************************************)
Startup(res, probe_ok) ==
    /\ pc = "start"
    /\ pc' = "draw"
    /\ IF songs > 0
       THEN play_song(current_song_index, 0, res, probe_ok)
       ELSE /\ play_result' = "none"
            /\ UNCHANGED <<paused, song_start_time, seek_offset, current_song_length,
                           music, music_volume>>
    /\ UNCHANGED <<songs, current_song_index, volume, running, pause_time>>
    /\ UNCHANGED <<visVars, busy_when_paused, now, term_tall, term_width, band>>
    /\ UNCHANGED <<key, pre, shown, pause_obs, layout>>

(***************************************************************************)
(* main(), player.py:630-657: one key from getch(), dispatched.  n is the   *)
(* number of mp3 files a reload finds, w the width after a resize.         *)
(***************************************************************************)
HandleKey(k, res, probe_ok, n, w) ==
    /\ pc = "input"
    /\ pc' = "check"
    /\ key' = k
    /\ pre' = Snapshot
    /\ CASE k = "q" ->
              /\ running' = FALSE
              /\ play_result' = "none"
              /\ UNCHANGED <<songs, current_song_index, paused, volume, song_start_time,
                             pause_time, seek_offset, current_song_length, music,
                             music_volume>>
         [] k = " " -> toggle_pause
         [] k = "n" ->
              /\ next_song(res, probe_ok)
              /\ UNCHANGED <<songs, volume, running, pause_time>>
         [] k = "p" ->
              /\ prev_song(res, probe_ok)
              /\ UNCHANGED <<songs, volume, running, pause_time>>
         [] k = "right" ->
              /\ seek_forward_target <= MaxOffset
              /\ seek(seek_forward_target, res, probe_ok)
              /\ UNCHANGED <<songs, volume, running, pause_time>>
         [] k = "left" ->
              /\ seek(seek_backward_target, res, probe_ok)
              /\ UNCHANGED <<songs, volume, running, pause_time>>
         [] k = "+" ->
              /\ volume' = volume_up_value
              /\ music_volume' = volume_up_value
              /\ play_result' = "none"
              /\ UNCHANGED <<songs, current_song_index, paused, running, song_start_time,
                             pause_time, seek_offset, current_song_length, music>>
         [] k = "-" ->
              /\ volume' = volume_down_value
              /\ music_volume' = volume_down_value
              /\ play_result' = "none"
              /\ UNCHANGED <<songs, current_song_index, paused, running, song_start_time,
                             pause_time, seek_offset, current_song_length, music>>
         [] k = "r" ->
              /\ songs' = n
              /\ play_result' = "none"
              /\ UNCHANGED <<current_song_index, paused, volume, running, song_start_time,
                             pause_time, seek_offset, current_song_length, music,
                             music_volume>>
         [] k \in {"none", "resize"} ->
              /\ play_result' = "none"
              /\ UNCHANGED <<playerVars, music, music_volume>>
    /\ term_width' = IF k = "resize" THEN w ELSE term_width
    /\ UNCHANGED <<visVars, busy_when_paused, now, term_tall, band>>
    /\ shown' = NoShown
    /\ UNCHANGED layout
    /\ pause_obs' = PauseObsAfterKey(k)

(***************************************************************************)
(* main(), player.py:659-661: the end-of-song check of every iteration.    *)
(***************************************************************************)
song_ended_ignoring_pause == ~get_busy /\ songs > 0

song_ended == ~get_busy /\ ~paused /\ songs > 0

CheckEnded(res, probe_ok) ==
    /\ pc = "check"
    /\ pc' = "sleep"
    /\ IF song_ended
       THEN /\ next_song(res, probe_ok)
            /\ pause_obs' = NoPause
       ELSE /\ play_result' = "none"
            /\ UNCHANGED <<current_song_index, paused, song_start_time, seek_offset,
                           current_song_length, music, music_volume, pause_obs>>
    /\ UNCHANGED <<songs, volume, running, pause_time>>
    /\ key' = "none"
    /\ pre' = NoPre
    /\ UNCHANGED <<visVars, busy_when_paused, now, term_tall, term_width, band>>
    /\ UNCHANGED <<shown, layout>>

(***************************************************************************)
(* main(), player.py:663 (and the 50 ms getch timeout): d seconds pass.    *)
(***************************************************************************)
Sleep(d) ==
    /\ pc = "sleep"
    /\ now + d <= MaxTime
    /\ pc' = "draw"
    /\ now' = now + d
    /\ play_result' = "none"
    /\ pause_obs' = IF pause_obs.phase = "paused" THEN pause_obs ELSE NoPause
    /\ UNCHANGED <<playerVars, visVars, music, music_volume, busy_when_paused,
                   term_tall, term_width, band, key, pre, shown, layout>>

(***************************************************************************)
(* The mixer's audio thread reaches the end of the stream.                 *)
(***************************************************************************)
MusicEnds ==
    /\ pc \in {"draw", "input", "check", "sleep"}
    /\ music = "playing"
    /\ music' = "idle"
    /\ pre' = NoPre
    /\ pause_obs' = NoPause
    /\ UNCHANGED <<playerVars, visVars, music_volume, busy_when_paused, now, term_tall,
                   term_width, band, pc, key, play_result, shown, layout>>

(***************************************************************************)
(* MP3Player.generate_visualizer_data, player.py:156-232, for one band.    *)
(* The bands do not read each other, so the model follows the band chosen  *)
(* at the start.  A draw d gives the tick's oscillator value (beat), its   *)
(* random numbers (drop: the 1.5% intensity drop; r: the band's            *)
(* np.random.random(); spike: the 12% spike lands on this band).           *)
(***************************************************************************)
NumBands == 64

Unit == 10 * 10 * 10

MaxAmp == (22 * Unit) \div 10

\* x * (hundredths / 100), rounded down to the grid
Scale(x, hundredths) == (x * hundredths) \div 100

Draws ==
    [beat : {0, Unit}, drop : BOOLEAN, r : {0, Unit - 1}, spike : BOOLEAN]

NoDraw == [beat |-> 0, drop |-> FALSE, r |-> 0, spike |-> FALSE]

\* the draw that gives every band its largest value
HighDraw == [beat |-> Unit, drop |-> FALSE, r |-> Unit - 1, spike |-> TRUE]

BeatAfter(bi, d) ==
    LET smoothed == Scale(bi, 75) + Scale(d.beat, 25)
    IN  IF d.drop THEN Scale(smoothed, 30) ELSE smoothed

\* 1000 * (k / 10) ** 1.3 for k = 0..10
Pow13Table == <<0, 50, 123, 209, 304, 406, 515, 629, 748, 872, 1000>>

\* x ** 1.3 for 0 <= x <= 1, read off the table with linear interpolation
Pow13(x) ==
    LET step == Unit \div 10
        k    == x \div step
        low  == Pow13Table[k + 1]
        high == Pow13Table[Min(k + 2, 11)]
    IN  low + ((high - low) * (x % step)) \div step

\* np.random.random() * span + low
Variation(r, span, low) == Scale(r, span) + Scale(Unit, low)

RawBand(i, bi, d) ==
    IF i < 16
    THEN LET bass_base == Scale(Pow13(bi), 160)
             variation == Variation(d.r, 60, 70)
         IN  (((bass_base * variation) \div Unit) * (25 - i)) \div 25
    ELSE IF i < 28
    THEN LET mid_low_base == Scale(bi, 135)
             variation == Variation(d.r, 70, 60)
         IN  (((mid_low_base * variation) \div Unit) * (20 - (i - 16))) \div 20
    ELSE IF i < 41
    THEN LET mid_base == Scale(bi, 120)
             variation == Variation(d.r, 80, 50)
         IN  (mid_base * variation) \div Unit
    ELSE IF i < 53
    THEN LET high_mid_base == Scale(bi, 100)
             variation == Variation(d.r, 90, 40)
         IN  (high_mid_base * variation) \div Unit
    ELSE LET treble_base == Scale(bi, 85)
             variation == Variation(d.r, 100, 30)
         IN  (((treble_base * variation) \div Unit) * (81 - 5 * (i - 53))) \div 90

Spiked(x, d) == IF d.spike THEN Min(MaxAmp, x + Scale(Unit, 70)) ELSE x

Clip(x) == Max(0, Min(MaxAmp, x))

NewData(i, bi, d) == Clip(Spiked(RawBand(i, bi, d), d))

BlendHeavy(old, new) == Scale(old, 35) + Scale(new, 75)

Blend(old, new) == Scale(old, 35) + Scale(new, 65)

PeakUpdateGrowing(peak, audio) == IF audio > peak THEN audio ELSE Scale(peak, 106)

PeakUpdate(peak, audio) == IF audio > peak THEN audio ELSE Scale(peak, 94)

FadeAudio(x) == Scale(x, 82)

FadePeak(x) == Scale(x, 88)

FadeBeat(x) == Scale(x, 85)

IsPlayingIgnoringPause == get_busy

IsPlaying == get_busy /\ ~paused

\* the three values after one call, from the three before it
VisAfter(v, i, playing, d) ==
    IF playing
    THEN LET bi    == BeatAfter(v.beat, d)
             audio == Blend(v.audio, NewData(i, bi, d))
         IN  [beat |-> bi, audio |-> audio, peak |-> PeakUpdate(v.peak, audio)]
    ELSE [beat |-> FadeBeat(v.beat), audio |-> FadeAudio(v.audio),
          peak |-> FadePeak(v.peak)]

\* the values after k playing calls on HighDraw, from the zeros of __init__
RECURSIVE Warm(_, _)
Warm(i, k) ==
    IF k = 0
    THEN [beat |-> 0, audio |-> 0, peak |-> 0]
    ELSE VisAfter(Warm(i, k - 1), i, TRUE, HighDraw)

NoTick == [count |-> 0]
NoFade == [n |-> 0]

generate_visualizer_data(d) ==
    LET v == VisAfter([beat |-> beat_intensity, audio |-> audio_data,
                       peak |-> peak_data], band, IsPlaying, d)
    IN  /\ beat_intensity' = v.beat
        /\ audio_data' = v.audio
        /\ peak_data' = v.peak
        /\ fade' = IF IsPlaying
                   THEN NoFade
                   ELSE IF fade.n = 0
                        THEN [n |-> 1, audio |-> audio_data, peak |-> peak_data]
                        ELSE [fade EXCEPT !.n = @ + 1]
        /\ tick' = [count |-> tick.count + 1, busy |-> get_busy, paused |-> paused,
                    audio |-> audio_data, peak |-> peak_data, beat |-> beat_intensity]

(***************************************************************************)
(* draw_visualizer, player.py:240-252: the columns of the 64 bars.         *)
(***************************************************************************)
BarWidth(available_width) == Max(1, available_width \div NumBands)

Remainder(available_width) == available_width % NumBands

CurrentBarWidth(available_width, i) ==
    BarWidth(available_width) + (IF i < Remainder(available_width) THEN 1 ELSE 0)

\* col_position after the first i bars
RECURSIVE ColPosition(_, _)
ColPosition(available_width, i) ==
    IF i = 0
    THEN 2
    ELSE ColPosition(available_width, i - 1) + CurrentBarWidth(available_width, i - 1)

Layout(width) ==
    LET available_width == width - 4
    IN  [valid |-> TRUE, available_width |-> available_width,
         bar_width |-> BarWidth(available_width),
         remainder |-> Remainder(available_width),
         columns |-> ColPosition(available_width, NumBands) - 2]

NoLayout == [valid |-> FALSE]

(***************************************************************************)
(* draw_ui, player.py:432-507, at the top of every iteration: the song     *)
(* line, the visualizer when the terminal is tall enough and the progress  *)
(* bar.                                                                    *)
(***************************************************************************)
MaxTicks == 2

DrawUI(d) ==
    /\ pc = "draw"
    /\ running
    /\ ~(songs > 0 /\ current_song_index >= songs)
    /\ pc' = "input"
    /\ IF term_tall
       THEN /\ tick.count < MaxTicks
            /\ generate_visualizer_data(d)
            /\ layout' = Layout(term_width - 28)
       ELSE UNCHANGED <<visVars, layout>>
    /\ shown' = [valid |-> TRUE, position |-> get_song_position, busy |-> get_busy]
    /\ UNCHANGED <<playerVars, envVars, key, pre, play_result, pause_obs>>

\* player.py:451: songs[current_song_index] is read outside any try block
DrawCrash ==
    /\ pc = "draw"
    /\ running
    /\ songs > 0 /\ current_song_index >= songs
    /\ pc' = "crashed"
    /\ UNCHANGED <<playerVars, visVars, envVars, obsVars, key>>

\* player.py:626 and 665-667: the loop ends, the music is stopped
Quit ==
    /\ pc = "draw"
    /\ ~running
    /\ pc' = "exit"
    /\ music' = "idle"
    /\ UNCHANGED <<playerVars, visVars, music_volume, busy_when_paused, now, term_tall,
                   term_width, band, obsVars, key>>

(***************************************************************************)
(* The state after MP3Player() (player.py:18-38), before main() goes on.   *)
(***************************************************************************)
Constructed ==
    /\ songs \in 0..MaxSongs
    /\ current_song_index = 0
    /\ paused = FALSE
    /\ volume = InitVolume
    /\ running = TRUE
    /\ song_start_time = 0
    /\ pause_time = 0
    /\ seek_offset = 0
    /\ current_song_length = 0
    /\ audio_data = 0
    /\ peak_data = 0
    /\ beat_intensity = 0
    /\ music = "idle"
    /\ music_volume = VolumeMax
    /\ busy_when_paused \in BOOLEAN
    /\ now = 1
    /\ pc = "start"
    /\ key = "none"
    /\ pre = NoPre
    /\ play_result = "none"
    /\ shown = NoShown
    /\ pause_obs = NoPause
    /\ tick = NoTick
    /\ fade = NoFade
    /\ layout = NoLayout

\* a terminal too short for the visualizer: the player alone
Init ==
    /\ Constructed
    /\ term_tall = FALSE
    /\ term_width = 80
    /\ band = 0

Next ==
    \/ \E res \in PlayResults, probe_ok \in BOOLEAN : Startup(res, probe_ok)
    \/ DrawUI(NoDraw)
    \/ DrawCrash
    \/ \E k \in PlainKeys : HandleKey(k, "ok", TRUE, songs, term_width)
    \/ \E k \in PlayKeys, res \in PlayResults, probe_ok \in BOOLEAN :
          HandleKey(k, res, probe_ok, songs, term_width)
    \/ \E n \in 0..MaxSongs : HandleKey("r", "ok", TRUE, n, term_width)
    \/ \E res \in PlayResults, probe_ok \in BOOLEAN : CheckEnded(res, probe_ok)
    \/ \E d \in 0..MaxDelay : Sleep(d)
    \/ MusicEnds
    \/ Quit

Spec == Init /\ [][Next]_vars

(***************************************************************************)
(* The same loop with the volume keys, the clock read in whole seconds     *)
(* within one second.                                                      *)
(***************************************************************************)
NextVolume ==
    \/ \E res \in PlayResults, probe_ok \in BOOLEAN : Startup(res, probe_ok)
    \/ DrawUI(NoDraw)
    \/ DrawCrash
    \/ \E k \in PlainKeys \cup VolumeKeys : HandleKey(k, "ok", TRUE, songs, term_width)
    \/ \E k \in PlayKeys, res \in PlayResults, probe_ok \in BOOLEAN :
          HandleKey(k, res, probe_ok, songs, term_width)
    \/ \E n \in 0..MaxSongs : HandleKey("r", "ok", TRUE, n, term_width)
    \/ \E res \in PlayResults, probe_ok \in BOOLEAN : CheckEnded(res, probe_ok)
    \/ Sleep(0)
    \/ MusicEnds
    \/ Quit

SpecVolume == Init /\ [][NextVolume]_vars

(***************************************************************************)
(* A tall terminal: every iteration runs the visualizer.  One track, the   *)
(* pause key, and the first and the last band of each tapered group (the   *)
(* taper is monotone in the band index) and the first band of the two      *)
(* groups whose bands all share one formula.                               *)
(***************************************************************************)
Bands == {0, 15, 16, 27, 28, 41, 53, NumBands - 1}

WarmTicks == 12

\* the player playing its one track and about to read a key, the visualizer
\* either untouched or WarmTicks calls in
InitVis ==
    /\ songs = 1
    /\ current_song_index = 0
    /\ paused = FALSE
    /\ volume = InitVolume
    /\ running = TRUE
    /\ now = 1
    /\ song_start_time = 1
    /\ pause_time = 0
    /\ seek_offset = 0
    /\ current_song_length = TrackLength(0)
    /\ music = "playing"
    /\ music_volume = InitVolume
    /\ busy_when_paused \in BOOLEAN
    /\ term_tall = TRUE
    /\ term_width = 80
    /\ band \in Bands
    /\ \E k \in {0, WarmTicks} :
          /\ beat_intensity = Warm(band, k).beat
          /\ audio_data = Warm(band, k).audio
          /\ peak_data = Warm(band, k).peak
    /\ pc = "input"
    /\ key = "none"
    /\ pre = NoPre
    /\ play_result = "none"
    /\ shown = NoShown
    /\ pause_obs = NoPause
    /\ tick = NoTick
    /\ fade = NoFade
    /\ layout = NoLayout

NextVis ==
    \/ \E d \in Draws : DrawUI(d)
    \/ \E k \in {"none", " "} : HandleKey(k, "ok", TRUE, songs, term_width)
    \/ CheckEnded("ok", TRUE)
    \/ Sleep(0)
    \/ MusicEnds

SpecVis == InitVis /\ [][NextVis]_vars

(***************************************************************************)
(* A tall terminal of any width, resized at will, with nothing to play.    *)
(***************************************************************************)
MaxCols == 120

InitRender ==
    /\ Constructed
    /\ songs = 0
    /\ term_tall = TRUE
    /\ term_width \in 1..MaxCols
    /\ band = 0

NextRender ==
    \/ Startup("ok", TRUE)
    \/ DrawUI(NoDraw)
    \/ HandleKey("none", "ok", TRUE, songs, term_width)
    \/ \E w \in 1..MaxCols : HandleKey("resize", "ok", TRUE, songs, w)
    \/ CheckEnded("ok", TRUE)
    \/ Sleep(0)

SpecRender == InitRender /\ [][NextRender]_vars

(***************************************************************************)
(* Properties.  JustHandled(k) is the state right after key k was          *)
(* dispatched, pre holding the player as it was before.                    *)
(***************************************************************************)
JustHandled(k) == pc = "check" /\ pre.valid /\ key = k

SeekDelta(k) == IF k = "right" THEN SeekStep ELSE 0 - SeekStep

\* C1: position() read just before a pause is what position() reads right after
\* the resume that follows, with no other command in between and whatever time
\* passed; and position() stays at one value for as long as the pause lasts.
PositionContinuity ==
    /\ pause_obs.phase = "resumed" => get_song_position = pause_obs.before
    /\ pause_obs.phase = "paused" => get_song_position = pause_obs.after

PositionContinuityWitness ==
    /\ pause_obs.phase = "resumed"
    /\ pause_obs.before > 0
    /\ now > pause_time
    /\ pause_time > 0

SeekClamp ==
    /\ seek_offset >= 0
    /\ \A k \in {"left", "right"} :
          (JustHandled(k) /\ play_result = "ok") =>
              seek_offset = Max(0, pre.position + SeekDelta(k))

SeekClampWitness ==
    /\ JustHandled("left")
    /\ play_result = "ok"
    /\ pre.position > 0
    /\ pre.position < SeekStep
    /\ pre.seek_offset > 0
    /\ seek_offset = 0

\* C4: with n > 0 tracks, next moves the index to (index + 1) mod n and prev to
\* (index - 1) mod n; the track then started has seek_offset 0, song_start_time
\* now and paused False.
TrackWraparound ==
    /\ (JustHandled("n") /\ pre.songs > 0) =>
          current_song_index = (pre.current_song_index + 1) % pre.songs
    /\ (JustHandled("p") /\ pre.songs > 0) =>
          current_song_index = (pre.current_song_index - 1) % pre.songs
    /\ \A k \in {"n", "p"} :
          (JustHandled(k) /\ play_result = "ok") =>
              seek_offset = 0 /\ song_start_time = now /\ ~paused

TrackWraparoundWitness ==
    /\ JustHandled("n")
    /\ pre.songs = 3
    /\ pre.current_song_index = 2
    /\ current_song_index = 0
    /\ play_result = "ok"
    /\ pre.paused
    /\ now > 1

\* C5: volume stays within [0, 1]; volume-up gives min(1, volume + 0.1),
\* volume-down max(0, volume - 0.1), and neither changes the paused flag, the
\* track index, song_start_time, pause_time or seek_offset.
VolumeClamped ==
    /\ 0 <= volume /\ volume <= VolumeMax
    /\ JustHandled("+") => volume = Min(VolumeMax, pre.volume + VolumeStep)
    /\ JustHandled("-") => volume = Max(0, pre.volume - VolumeStep)
    /\ \A k \in VolumeKeys :
          JustHandled(k) =>
              /\ paused = pre.paused
              /\ current_song_index = pre.current_song_index
              /\ song_start_time = pre.song_start_time
              /\ pause_time = pre.pause_time
              /\ seek_offset = pre.seek_offset

VolumeClampedWitness ==
    /\ JustHandled("+")
    /\ pre.volume = VolumeMax
    /\ volume = VolumeMax
    /\ paused
    /\ seek_offset > 0

\* C6: after any ticks, playing or not, on any draws, the followed band has
\* 0 <= audio_data <= 2.2 and 0 <= peak_data <= 2.2.
BoundedAmplitude ==
    /\ 0 <= audio_data /\ audio_data <= MaxAmp
    /\ 0 <= peak_data /\ peak_data <= MaxAmp

BoundedAmplitudeWitness ==
    /\ tick.count >= 2
    /\ tick.busy /\ ~tick.paused
    /\ audio_data * 100 >= MaxAmp * 99
    /\ peak_data >= audio_data

\* C7: on every tick the new peak is at most the previous peak, unless the new
\* amplitude of that tick exceeds the previous peak, and then the new peak is
\* the new amplitude.
PeakDecayLaw ==
    tick.count > 0 =>
        IF audio_data > tick.peak
        THEN peak_data = audio_data
        ELSE peak_data <= tick.peak

PeakDecayLawWitness ==
    /\ tick.count >= 2
    /\ tick.busy /\ ~tick.paused
    /\ tick.peak > 0
    /\ audio_data > tick.peak
    /\ peak_data = audio_data

RECURSIVE Faded(_, _, _)
Faded(x, hundredths, n) ==
    IF n = 0 THEN x ELSE Scale(Faded(x, hundredths, n - 1), hundredths)

\* C8: a tick that finds the service not busy, or the player paused, multiplies
\* the amplitude by 0.82, the peak by 0.88 and the beat intensity by 0.85,
\* whatever the draw; over N such ticks in a row neither frame increases and
\* they are 0.82^N and 0.88^N of what they were.
PauseFade ==
    /\ (tick.count > 0 /\ (~tick.busy \/ tick.paused)) =>
          /\ audio_data = Scale(tick.audio, 82)
          /\ peak_data = Scale(tick.peak, 88)
          /\ beat_intensity = Scale(tick.beat, 85)
          /\ audio_data <= tick.audio
          /\ peak_data <= tick.peak
          /\ fade.n > 0
    /\ fade.n > 0 =>
          /\ audio_data = Faded(fade.audio, 82, fade.n)
          /\ peak_data = Faded(fade.peak, 88, fade.n)
          /\ audio_data <= fade.audio
          /\ peak_data <= fade.peak

PauseFadeWitness ==
    /\ fade.n >= 2
    /\ tick.paused
    /\ tick.busy
    /\ fade.audio > Unit
    /\ audio_data < tick.audio

\* C9: the widths draw_visualizer gives the 64 bars add up to the available
\* width exactly, also when the available width is under 64.
BarFillExact ==
    layout.valid => layout.columns = layout.available_width

\* C10: a seek key handled while the player is Playing or Paused (a track loaded
\* in the mixer) whose restart does not fail leaves paused False, seek_offset
\* max(0, position + delta), song_start_time now and the mixer playing.
SeekLeavesPlaying ==
    \A k \in {"left", "right"} :
        (/\ JustHandled(k)
         /\ pre.songs > 0
         /\ pre.music \in {"playing", "paused"}
         /\ play_result \notin {"load_fails", "play_fails", "index_error"}) =>
            /\ ~paused
            /\ seek_offset = Max(0, pre.clock + SeekDelta(k))
            /\ song_start_time = now
            /\ music = "playing"

\* C11: the end-of-song check of an iteration that finds the service not busy,
\* the player not paused and the list non-empty moves the index to
\* (index + 1) mod n and, the service starting the track, leaves it playing from
\* offset 0 with song_start_time now; any other end-of-song check leaves the
\* index alone, and while the player is paused no step but a key changes it.
AutoAdvance ==
    [][/\ (pc = "check" /\ pc' = "sleep") =>
             IF ~get_busy /\ ~paused /\ songs > 0
             THEN /\ current_song_index' = (current_song_index + 1) % songs
                  /\ play_result' = "ok" =>
                        /\ seek_offset' = 0
                        /\ song_start_time' = now
                        /\ ~paused'
                        /\ music' = "playing"
             ELSE current_song_index' = current_song_index
       /\ (paused /\ pc # "input") => current_song_index' = current_song_index
      ]_vars

AutoAdvanceWitness ==
    /\ pc = "sleep"
    /\ play_result = "ok"
    /\ music = "playing"
    /\ songs = 3
    /\ current_song_index = 0
    /\ seek_offset = 0
    /\ song_start_time = now
    /\ now > 1

\* C12: a play, next, prev or seek command during which the service fails to
\* load or to start the track leaves the track index, the paused flag,
\* song_start_time, seek_offset and current_song_length as they were before the
\* command, and the loop running.
LoadErrorKeepsState ==
    \A k \in PlayKeys :
        (JustHandled(k) /\ play_result \in {"load_fails", "play_fails"}) =>
            /\ running
            /\ current_song_index = pre.current_song_index
            /\ paused = pre.paused
            /\ song_start_time = pre.song_start_time
            /\ seek_offset = pre.seek_offset
            /\ current_song_length = pre.current_song_length

\* C13: whenever the list is non-empty, 0 <= current_song_index < len(songs),
\* also right after a reload that finds fewer files, so that draw_ui never
\* fails on songs[current_song_index].
TrackIndexInRange ==
    /\ songs > 0 => (0 <= current_song_index /\ current_song_index < songs)
    /\ pc # "crashed"

====
